---- MODULE Spec2Model ----
(***************************************************************************)
(* Model of strongMan's server_connections Connection model                *)
(* (strongMan/apps/server_connections/models/connections.py): the          *)
(* configuration compiler Connection.dict, the lifecycle operations       *)
(* load/start/unload/stop and the state property, run against the VICI     *)
(* daemon wrapper.                                                         *)
(***************************************************************************)
EXTENDS Integers, Sequences, FiniteSets, TLC

(***************************************************************************)
(* Bounds of the model.                                                    *)
(***************************************************************************)
MaxChildren == 2
MaxCerts == 1
MaxLog == 3
MaxRows == 2

(***************************************************************************)
(* Values.                                                                 *)
(***************************************************************************)
\* Nullable BooleanField values (None, False, True).
NullBooleans == {"None", "False", "True"}

\* Python truthiness of a nullable boolean.
Truthy(b) == b = "True"

\* State enum of models/common.py.
State_UNLOADED == "UNLOADED"
State_LOADED == "LOADED"
State_DOWN == "DOWN"
State_CONNECTING == "CONNECTING"
State_ESTABLISHED == "ESTABLISHED"

States == {State_UNLOADED, State_LOADED, State_DOWN, State_CONNECTING, State_ESTABLISHED}

\* What the daemon may report as the state of an IKE SA.
DaemonStates == {"DOWN", "CONNECTING", "ESTABLISHED", "DELETING"}

\* The two request threads that may call into the model.
Callers == {1, 2}

\* Python's None as a return value.
None == "None"

\* Outcome of a call that has not finished.
NoResult == [exc |-> "pending", value |-> None]

Returned(v) == [exc |-> "none", value |-> v]

Raised(e) == [exc |-> e, value |-> None]

VARIABLES
    self,            \* the Connection row: fields that lifecycle calls only read
    enabled,         \* Connection.enabled as persisted
    certificates,    \* Certificate.objects.all()
    daemon_loaded,   \* whether the daemon holds a configuration under the profile
    log_messages,    \* LogMessage rows of the connection, oldest first
    pc,              \* per caller: the statement it is about to run
    op,              \* per caller: the method it called last
    idx,             \* per caller: position in the loop it is in
    calls,           \* per caller: daemon calls its current invocation has issued
    result,          \* per caller: how its last invocation ended
    prev,            \* per caller: the method called before op, how it ended, and the log when op was called
    overlap,         \* whether a method was ever called while another was running
    rows             \* the tables of rows that belong to connections

vars == <<self, enabled, certificates, daemon_loaded, log_messages, pc, op, idx, calls, result, prev, overlap, rows>>

(***************************************************************************)
(* collections.OrderedDict, as the sequence of its <<key, value>> items.   *)
(***************************************************************************)
OrderedDict_has(d, k) == \E i \in DOMAIN d : d[i][1] = k

\* An assignment that moves an existing key to the end.
OrderedDict_set_moved(d, k, v) ==
    Append(SelectSeq(d, LAMBDA e : e[1] # k), <<k, v>>)

\* An assignment that leaves the value of an existing key alone.
OrderedDict_set_kept(d, k, v) ==
    IF OrderedDict_has(d, k) THEN d ELSE Append(d, <<k, v>>)

\* d[k] = v: an existing key keeps its position, a new key goes last.
OrderedDict_set(d, k, v) ==
    IF OrderedDict_has(d, k)
    THEN [i \in DOMAIN d |-> IF d[i][1] = k THEN <<k, v>> ELSE d[i]]
    ELSE Append(d, <<k, v>>)

RECURSIVE OrderedDict_update(_, _)
\* d.update(other)
OrderedDict_update(d, other) ==
    IF Len(other) = 0
    THEN d
    ELSE OrderedDict_update(OrderedDict_set(d, other[1][1], other[1][2]), Tail(other))

OrderedDict_keys(d) == [i \in DOMAIN d |-> d[i][1]]

(***************************************************************************)
(* Collaborators of Connection.dict that live in other modules.            *)
(***************************************************************************)
\* Child.dict(): the sub-document of one child.
Child_dict(child) == <<<<"esp_proposals", child.esp_proposals>>>>

\* Authentication.subclass().dict(): the fragment of one endpoint.
Authentication_dict(auth) == auth.fragment

\* Authentication.subclass().has_private_key()
has_private_key(auth) == auth.has_private_key

\* Authentication.subclass().get_key_dict()
get_key_dict(auth) == <<"key", auth.name>>

(***************************************************************************)
(* Connection.dict                                                         *)
(***************************************************************************)
RECURSIVE dict_children(_, _)
\* children[child.name] = child.dict() for every child, in order
dict_children(children, rest) ==
    IF Len(rest) = 0
    THEN children
    ELSE dict_children(OrderedDict_set(children, rest[1].name, Child_dict(rest[1])), Tail(rest))

RECURSIVE dict_update_all(_, _)
\* ike_sa.update(auth.dict()) for every endpoint, in order
dict_update_all(ike_sa, auths) ==
    IF Len(auths) = 0
    THEN ike_sa
    ELSE dict_update_all(OrderedDict_update(ike_sa, Authentication_dict(auths[1])), Tail(auths))

\* A send_certreq that says yes for every truthy flag.
dict_send_certreq_truthy(send_certreq) == IF send_certreq \in {"1", "True"} THEN "yes" ELSE "no"

\* send_certreq is a nullable boolean; only a value equal to the string '1' says yes.
dict_send_certreq(send_certreq) == IF send_certreq = "1" THEN "yes" ELSE "no"

dict_send_cert(connection_type) == IF connection_type = "remote_access" THEN "always" ELSE "ifasked"

\* The document, or the exception the method raises.
dict(c) ==
    LET children == dict_children(<<>>, c.server_children)
        s0 == <<>>
        s1 == IF c.pool # None THEN OrderedDict_set(s0, "pools", <<c.pool>>) ELSE s0
        local_address == c.server_local_addresses
        remote_address == c.server_remote_addresses
    IN  IF Len(local_address) = 0 THEN Raised("IndexError")
        ELSE LET s2 == IF local_address[1] # "" THEN OrderedDict_set(s1, "local_addrs", local_address) ELSE s1
             IN  IF Len(remote_address) = 0 THEN Raised("IndexError")
                 ELSE LET s3 == IF remote_address[1] # "" THEN OrderedDict_set(s2, "remote_addrs", remote_address) ELSE s2
                          s4 == OrderedDict_set(s3, "version", c.version)
                          s5 == OrderedDict_set(s4, "proposals", c.server_proposals)
                          s6 == OrderedDict_set(s5, "children", children)
                          s7 == OrderedDict_set(s6, "send_certreq", dict_send_certreq(c.send_certreq))
                          s8 == OrderedDict_set(s7, "send_cert", dict_send_cert(c.connection_type))
                          s9 == dict_update_all(s8, c.server_local)
                          ike_sa == dict_update_all(s9, c.server_remote)
                      IN  Returned(<<<<c.profile, ike_sa>>>>)

(***************************************************************************)
(* The daemon behind ViciWrapper: every call either returns or raises; a   *)
(* call that returns has the effect the daemon interface documents.        *)
(***************************************************************************)
DaemonOutcomes == {"ok", "raise"}

\* Log lines initiate() and terminate_connection() may return.
LogReplies ==
    { <<>>, <<[message |-> "initiating"], [message |-> "established"]>> }

\* unload_connection(profile): afterwards nothing is loaded under the profile.
Daemon_unload_connection(loaded, outcome) == IF outcome = "ok" THEN FALSE ELSE loaded

\* load_connection(document): afterwards the profile is loaded.
Daemon_load_connection(loaded, outcome) == IF outcome = "ok" THEN TRUE ELSE loaded

\* is_connection_loaded(profile)
Daemon_is_connection_loaded(loaded) == loaded

(***************************************************************************)
(* Connection.state                                                        *)
(***************************************************************************)
is_remote_access(c) == c.connection_type = "remote_access"

is_site_to_site(c) == c.connection_type = "site_to_site"

\* The condition with "or" binding tighter than "and".
state_is_passive_or_first(c) == (is_remote_access(c) \/ is_site_to_site(c)) /\ ~Truthy(c.initiate)

\* The condition of the first branch: a connection whose state is "is it loaded".
state_is_passive(c) == is_remote_access(c) \/ (is_site_to_site(c) /\ ~Truthy(c.initiate))

\* First branch, the daemon answered.
state_loaded(loaded) == IF loaded THEN State_LOADED ELSE State_UNLOADED

\* First branch, the query raised.
state_loaded_except == State_UNLOADED

\* Second branch, the daemon answered: the if/elif chain, which has no else.
state_connection(state) ==
    IF state = State_DOWN THEN State_DOWN
    ELSE IF state = State_ESTABLISHED THEN State_ESTABLISHED
    ELSE IF state = State_CONNECTING THEN State_CONNECTING
    ELSE None

\* Second branch, the query raised.
state_connection_except == State_DOWN

(***************************************************************************)
(* Control flow of load() and start() after load_connection.               *)
(***************************************************************************)
\* start(): if self.initiate
start_initiates(c) == Truthy(c.initiate)

\* load() toggling the flag instead of setting it.
load_enabled_toggled == ~enabled

\* load(): the value written to enabled
load_enabled == TRUE

\* unload() toggling the flag instead of clearing it.
unload_enabled_toggled == ~enabled

\* unload() leaving the flag as it is.
unload_enabled_kept == enabled

\* unload(): the value written to enabled
unload_enabled == FALSE

Idle == [pc |-> "idle", idx |-> 0]

RECURSIVE NextPoint(_, _, _, _, _)
\* The next daemon call of method o from position i of loop ph:
\* 1 = local keys, 2 = remote keys, 3 = certificates, 4 = children of start().
NextPoint(c, certs, o, ph, i) ==
    CASE ph = 1 ->
           IF i > Len(c.server_local) THEN NextPoint(c, certs, o, 2, 1)
           ELSE IF has_private_key(c.server_local[i]) THEN [pc |-> "load_key_local", idx |-> i]
           ELSE NextPoint(c, certs, o, 1, i + 1)
      [] ph = 2 ->
           IF i > Len(c.server_remote) THEN NextPoint(c, certs, o, 3, 1)
           ELSE IF has_private_key(c.server_remote[i]) THEN [pc |-> "load_key_remote", idx |-> i]
           ELSE NextPoint(c, certs, o, 2, i + 1)
      [] ph = 3 ->
           IF i > Len(certs) THEN NextPoint(c, certs, o, 4, 1)
           ELSE [pc |-> "load_certificate", idx |-> i]
      [] OTHER ->
           IF o = "start" /\ start_initiates(c) /\ i <= Len(c.server_children)
           THEN [pc |-> "start_initiate", idx |-> i]
           ELSE Idle

\* load() that compiles and loads without unloading first.
AfterLoadSave_compiling == [pc |-> "load_load_connection", idx |-> 0]

\* load(): after the flag is saved the profile is unloaded from the daemon.
AfterLoadSave == [pc |-> "load_unload_connection", idx |-> 0]

\* load() swallowing the daemon's rejection.
AfterLoadConnection_swallowed(c, certs, o, outcome) == NextPoint(c, certs, o, 1, 1)

\* load(): after load_connection; a rejected document ends the method.
AfterLoadConnection(c, certs, o, outcome) ==
    IF outcome = "ok" THEN NextPoint(c, certs, o, 1, 1) ELSE Idle

\* start() going on to the next child after a failed initiate.
AfterInitiate_continued(c, certs, o, i, failed) == NextPoint(c, certs, o, 4, i + 1)

\* start(): after initiate for child i; a failed call ends the method.
AfterInitiate(c, certs, o, i, failed) ==
    IF failed THEN Idle ELSE NextPoint(c, certs, o, 4, i + 1)

\* stop() terminating even though unload_connection failed.
AfterUnloadConnection_unchecked(o, outcome) ==
    IF o = "stop" THEN [pc |-> "stop_terminate", idx |-> 0] ELSE Idle

\* unload() and stop(): after unload_connection; stop() goes on to terminate.
AfterUnloadConnection(o, outcome) ==
    IF outcome = "ok" /\ o = "stop" THEN [pc |-> "stop_terminate", idx |-> 0] ELSE Idle

(***************************************************************************)
(* Connection definitions the model starts from.                           *)
(***************************************************************************)
Profile == "office"

ConnectionTypes == {"remote_access", "site_to_site", "other"}

ChildNames == <<"net-1", "net-2", "net-3", "net-4">>

Children(n) == [i \in 1..n |-> [name |-> ChildNames[i], esp_proposals |-> <<"aes128gcm128">>]]

\* An endpoint with a private key (certificate based) and one without (EAP).
KeyAuth(side) ==
    [name |-> side, has_private_key |-> TRUE, fragment |-> <<<<side, <<"pubkey">>>>>>]

NoKeyAuth(side) ==
    [name |-> side, has_private_key |-> FALSE, fragment |-> <<<<side, <<"eap-mschapv2">>>>>>]

AuthLists(side) == { <<NoKeyAuth(side)>>, <<KeyAuth(side)>> }

\* Local address lists: no Address row, or one address.
LocalAddressLists == { <<>>, <<"10.0.0.1">> }

\* Remote address lists of the lifecycle runs: one address (compiling with
\* the other shapes of list is covered by CompileAddressLists).
RemoteAddressLists == { <<"10.0.0.2">> }

CertificateStores == { [i \in 1..n |-> [type |-> "X509", der_container |-> ChildNames[i]]] : n \in 0..MaxCerts }

Connections ==
    [ profile : {Profile},
      version : {"2"},
      pool : {None},
      send_certreq : {"None"},
      connection_type : ConnectionTypes,
      initiate : NullBooleans,
      server_children : { Children(n) : n \in 0..MaxChildren },
      server_local_addresses : LocalAddressLists,
      server_remote_addresses : RemoteAddressLists,
      server_proposals : { <<"aes128-sha256-modp2048">> },
      server_local : AuthLists("local"),
      server_remote : AuthLists("remote") ]

Ops == {"load", "start", "unload", "stop", "state"}

\* Methods that append to the log.
Logging(o) == o \in {"start", "stop"}

(***************************************************************************)
(* The tables pre_delete works on.  A row is a record of its foreign keys   *)
(* (0 is NULL) and a number n that tells rows of one owner apart.           *)
(***************************************************************************)
ConnectionIds == {1, 2}

\* Children that can exist: MaxChildren of connection 1, one of connection 2.
CandidateChildren ==
    { [id |-> i, connection |-> 1] : i \in 1..MaxChildren }
        \cup { [id |-> MaxChildren + 1, connection |-> 2] }

\* The kinds of row a connection or a child can own.
RowKinds ==
    { "child_proposal", "local_ts", "remote_ts", "proposal",
      "local_address", "remote_address", "local_auth", "remote_auth" }

Numbers(kinds, kind, n) == IF kind \in kinds THEN 1..n ELSE {}

\* The tables in which every child of children and every connection owns n
\* rows of each kind in kinds.
Tables(children, kinds, n) ==
    LET ids == { ch.id : ch \in children } IN
    [ Connection |-> ConnectionIds,
      Child |-> children,
      Proposal |->
          { [child |-> i, connection |-> 0, n |-> k] :
                i \in ids, k \in Numbers(kinds, "child_proposal", n) }
          \cup { [child |-> 0, connection |-> c, n |-> k] :
                c \in ConnectionIds, k \in Numbers(kinds, "proposal", n) },
      Address |->
          { [local_ts |-> i, remote_ts |-> 0, local_addresses |-> 0, remote_addresses |-> 0, n |-> k] :
                i \in ids, k \in Numbers(kinds, "local_ts", n) }
          \cup { [local_ts |-> 0, remote_ts |-> i, local_addresses |-> 0, remote_addresses |-> 0, n |-> k] :
                i \in ids, k \in Numbers(kinds, "remote_ts", n) }
          \cup { [local_ts |-> 0, remote_ts |-> 0, local_addresses |-> c, remote_addresses |-> 0, n |-> k] :
                c \in ConnectionIds, k \in Numbers(kinds, "local_address", n) }
          \cup { [local_ts |-> 0, remote_ts |-> 0, local_addresses |-> 0, remote_addresses |-> c, n |-> k] :
                c \in ConnectionIds, k \in Numbers(kinds, "remote_address", n) },
      Authentication |->
          { [local |-> c, remote |-> 0, n |-> 1] :
                c \in ConnectionIds, k \in Numbers(kinds, "local_auth", 1) }
          \cup { [local |-> 0, remote |-> c, n |-> 1] :
                c \in ConnectionIds, k \in Numbers(kinds, "remote_auth", 1) } ]

\* The lifecycle methods read the related rows through self; the tables
\* then hold the connection rows alone.
ConnectionRowsOnly == Tables({}, {}, 0)

Init ==
    /\ self \in Connections
    /\ enabled = FALSE
    /\ certificates \in CertificateStores
    /\ daemon_loaded = FALSE
    /\ log_messages = <<>>
    /\ pc = [t \in Callers |-> "idle"]
    /\ op = [t \in Callers |-> "none"]
    /\ idx = [t \in Callers |-> 0]
    /\ calls = [t \in Callers |-> <<>>]
    /\ result = [t \in Callers |-> NoResult]
    /\ prev = [t \in Callers |-> [op |-> "none", exc |-> "pending", log_messages |-> <<>>]]
    /\ overlap = FALSE
    /\ rows = ConnectionRowsOnly

(***************************************************************************)
(* Steps of a caller t.                                                    *)
(***************************************************************************)
\* The caller moves to point P; at the end of the method res is its outcome.
Goto(t, P, res) ==
    /\ pc' = [pc EXCEPT ![t] = P.pc]
    /\ idx' = [idx EXCEPT ![t] = P.idx]
    /\ result' = [result EXCEPT ![t] = IF P.pc = "idle" THEN res ELSE NoResult]

\* The daemon receives a call and answers it.
Issue(t, name, arg, answer) == calls' = [calls EXCEPT ![t] = Append(@, <<name, arg, answer>>)]

\* How a daemon call without a return value ends.
Answer(outcome) == IF outcome = "ok" THEN Returned(None) ELSE Raised("ViciException")

\* How the method ends when the daemon call ended with outcome.
Outcome(outcome, exc) == IF outcome = "ok" THEN Returned(None) ELSE Raised(exc)

\* Saving that replaces the stored messages by the new ones.
SaveLogs_latest(logs) == log_messages' = [i \in DOMAIN logs |-> logs[i].message]

\* LogMessage(connection=self, message=log['message']).save() for every log
SaveLogs(logs) == log_messages' = log_messages \o [i \in DOMAIN logs |-> logs[i].message]

\* load() that never persists the flag.
FirstPc_unsaved(o) ==
    CASE o \in {"load", "start"} -> "load_unload_connection"
      [] o \in {"unload", "stop"} -> "unload_save"
      [] OTHER -> "state"

\* The first statement of method o.
FirstPc(o) ==
    CASE o \in {"load", "start"} -> "load_save"
      [] o \in {"unload", "stop"} -> "unload_save"
      [] OTHER -> "state"

\* A request thread calls a method of the connection.
Call(t, o) ==
    /\ pc[t] = "idle"
    /\ Logging(o) => Len(log_messages) < MaxLog
    /\ pc' = [pc EXCEPT ![t] = FirstPc(o)]
    /\ op' = [op EXCEPT ![t] = o]
    /\ idx' = [idx EXCEPT ![t] = 0]
    /\ calls' = [calls EXCEPT ![t] = <<>>]
    /\ result' = [result EXCEPT ![t] = NoResult]
    /\ prev' = [prev EXCEPT ![t] = [op |-> op[t], exc |-> result[t].exc, log_messages |-> log_messages]]
    /\ overlap' = (overlap \/ \E u \in Callers \ {t} : pc[u] # "idle")
    /\ UNCHANGED <<rows, self, enabled, certificates, daemon_loaded, log_messages>>

\* load(): self.enabled = True; self.save()
load_save(t) ==
    /\ pc[t] = "load_save"
    /\ enabled' = load_enabled
    /\ Goto(t, AfterLoadSave, NoResult)
    /\ UNCHANGED <<rows, self, certificates, daemon_loaded, log_messages, op, calls, prev, overlap>>

\* load(): vici_wrapper.unload_connection(self.profile)
load_unload_connection(t) ==
    /\ pc[t] = "load_unload_connection"
    /\ \E outcome \in DaemonOutcomes :
        /\ Issue(t, "unload_connection", self.profile, Answer(outcome))
        /\ daemon_loaded' = Daemon_unload_connection(daemon_loaded, outcome)
        /\ Goto(t, IF outcome = "ok" THEN [pc |-> "load_load_connection", idx |-> 0] ELSE Idle,
                Outcome(outcome, "ViciException"))
    /\ UNCHANGED <<rows, self, enabled, certificates, log_messages, op, prev, overlap>>

\* load(): connection_dict = self.subclass().dict(); vici_wrapper.load_connection(connection_dict)
load_load_connection(t) ==
    /\ pc[t] = "load_load_connection"
    /\ LET connection_dict == dict(self)
       IN  IF connection_dict.exc # "none"
           THEN /\ Goto(t, Idle, connection_dict)
                /\ UNCHANGED <<calls, daemon_loaded>>
           ELSE \E outcome \in DaemonOutcomes :
                /\ Issue(t, "load_connection", connection_dict.value, Answer(outcome))
                /\ daemon_loaded' = Daemon_load_connection(daemon_loaded, outcome)
                /\ Goto(t, AfterLoadConnection(self, certificates, op[t], outcome),
                        Outcome(outcome, "ViciLoadException"))
    /\ UNCHANGED <<rows, self, enabled, certificates, log_messages, op, prev, overlap>>

\* load(): vici_wrapper.load_key(local.get_key_dict())
load_key_local(t) ==
    /\ pc[t] = "load_key_local"
    /\ \E outcome \in DaemonOutcomes :
        /\ Issue(t, "load_key", get_key_dict(self.server_local[idx[t]]), Answer(outcome))
        /\ Goto(t, IF outcome = "ok" THEN NextPoint(self, certificates, op[t], 1, idx[t] + 1) ELSE Idle,
                Outcome(outcome, "ViciException"))
    /\ UNCHANGED <<rows, self, enabled, certificates, daemon_loaded, log_messages, op, prev, overlap>>

\* load(): vici_wrapper.load_key(remote.get_key_dict())
load_key_remote(t) ==
    /\ pc[t] = "load_key_remote"
    /\ \E outcome \in DaemonOutcomes :
        /\ Issue(t, "load_key", get_key_dict(self.server_remote[idx[t]]), Answer(outcome))
        /\ Goto(t, IF outcome = "ok" THEN NextPoint(self, certificates, op[t], 2, idx[t] + 1) ELSE Idle,
                Outcome(outcome, "ViciException"))
    /\ UNCHANGED <<rows, self, enabled, certificates, daemon_loaded, log_messages, op, prev, overlap>>

\* load(): vici_wrapper.load_certificate(OrderedDict(type=..., flag='None', data=...))
load_certificate(t) ==
    /\ pc[t] = "load_certificate"
    /\ \E outcome \in DaemonOutcomes :
        /\ Issue(t, "load_certificate",
                 <<certificates[idx[t]].type, "None", certificates[idx[t]].der_container>>,
                 Answer(outcome))
        /\ Goto(t, IF outcome = "ok" THEN NextPoint(self, certificates, op[t], 3, idx[t] + 1) ELSE Idle,
                Outcome(outcome, "ViciException"))
    /\ UNCHANGED <<rows, self, enabled, certificates, daemon_loaded, log_messages, op, prev, overlap>>

\* start(): logs = vici_wrapper.initiate(child.name, self.profile), and the logs saved
start_initiate(t) ==
    /\ pc[t] = "start_initiate"
    /\ \/ \E logs \in LogReplies :
            /\ Issue(t, "initiate", <<self.server_children[idx[t]].name, self.profile>>, Returned(logs))
            /\ SaveLogs(logs)
            /\ Goto(t, AfterInitiate(self, certificates, op[t], idx[t], FALSE), Returned(None))
       \/ /\ Issue(t, "initiate", <<self.server_children[idx[t]].name, self.profile>>,
                   Raised("ViciException"))
          /\ Goto(t, AfterInitiate(self, certificates, op[t], idx[t], TRUE), Raised("ViciException"))
          /\ UNCHANGED log_messages
    /\ UNCHANGED <<rows, self, enabled, certificates, daemon_loaded, op, prev, overlap>>

\* unload(): self.enabled = False; self.save()
unload_save(t) ==
    /\ pc[t] = "unload_save"
    /\ enabled' = unload_enabled
    /\ Goto(t, [pc |-> "unload_unload_connection", idx |-> 0], NoResult)
    /\ UNCHANGED <<rows, self, certificates, daemon_loaded, log_messages, op, calls, prev, overlap>>

\* unload(): vici_wrapper.unload_connection(self.profile)
unload_unload_connection(t) ==
    /\ pc[t] = "unload_unload_connection"
    /\ \E outcome \in DaemonOutcomes :
        /\ Issue(t, "unload_connection", self.profile, Answer(outcome))
        /\ daemon_loaded' = Daemon_unload_connection(daemon_loaded, outcome)
        /\ Goto(t, AfterUnloadConnection(op[t], outcome), Outcome(outcome, "ViciException"))
    /\ UNCHANGED <<rows, self, enabled, certificates, log_messages, op, prev, overlap>>

\* stop(): logs = vici_wrapper.terminate_connection(self.profile), and the logs saved
stop_terminate(t) ==
    /\ pc[t] = "stop_terminate"
    /\ \/ \E logs \in LogReplies :
            /\ Issue(t, "terminate_connection", self.profile, Returned(logs))
            /\ SaveLogs(logs)
            /\ Goto(t, Idle, Returned(None))
       \/ /\ Issue(t, "terminate_connection", self.profile, Raised("ViciException"))
          /\ Goto(t, Idle, Raised("ViciException"))
          /\ UNCHANGED log_messages
    /\ UNCHANGED <<rows, self, enabled, certificates, daemon_loaded, op, prev, overlap>>

\* The state property.
state(t) ==
    /\ pc[t] = "state"
    /\ IF state_is_passive(self)
       THEN \/ /\ Issue(t, "is_connection_loaded", self.profile,
                        Returned(Daemon_is_connection_loaded(daemon_loaded)))
               /\ Goto(t, Idle, Returned(state_loaded(Daemon_is_connection_loaded(daemon_loaded))))
            \/ /\ Issue(t, "is_connection_loaded", self.profile, Raised("ViciException"))
               /\ Goto(t, Idle, Returned(state_loaded_except))
       ELSE \/ \E s \in DaemonStates :
                 /\ Issue(t, "get_connection_state", self.profile, Returned(s))
                 /\ Goto(t, Idle, Returned(state_connection(s)))
            \/ /\ Issue(t, "get_connection_state", self.profile, Raised("ViciException"))
               /\ Goto(t, Idle, Returned(state_connection_except))
    /\ UNCHANGED <<rows, self, enabled, certificates, daemon_loaded, log_messages, op, prev, overlap>>

Step(t) ==
    \/ \E o \in Ops : Call(t, o)
    \/ load_save(t)
    \/ load_unload_connection(t)
    \/ load_load_connection(t)
    \/ load_key_local(t)
    \/ load_key_remote(t)
    \/ load_certificate(t)
    \/ start_initiate(t)
    \/ unload_save(t)
    \/ unload_unload_connection(t)
    \/ stop_terminate(t)
    \/ state(t)

\* One request thread at a time.
Next == Step(1)

Spec == Init /\ [][Next]_vars

(***************************************************************************)
(* Two request threads working on the same connection.  Nothing in the     *)
(* methods takes a lock, so their steps interleave freely.                 *)
(***************************************************************************)
ConcurrentConnections ==
    { c \in Connections :
        /\ c.connection_type = "site_to_site"
        /\ c.initiate = "True"
        /\ Len(c.server_children) = 1
        /\ Len(c.server_local_addresses) = 1
        /\ Len(c.server_remote_addresses) = 1
        /\ has_private_key(c.server_local[1])
        /\ has_private_key(c.server_remote[1]) }

InitConcurrent ==
    /\ Init
    /\ self \in ConcurrentConnections
    /\ Len(certificates) = 1

\* The methods the two threads call: load(), unload() and stop().
StepConcurrent(t) ==
    \/ \E o \in {"load", "unload", "stop"} : Call(t, o)
    \/ load_save(t)
    \/ load_unload_connection(t)
    \/ load_load_connection(t)
    \/ load_key_local(t)
    \/ load_key_remote(t)
    \/ load_certificate(t)
    \/ unload_save(t)
    \/ unload_unload_connection(t)
    \/ stop_terminate(t)

NextConcurrent == \E t \in Callers : StepConcurrent(t)

SpecConcurrent == InitConcurrent /\ [][NextConcurrent]_vars

(***************************************************************************)
(* Connection.dict on its own: compiling a definition, nothing else.       *)
(***************************************************************************)
\* Values send_certreq can hold: the nullable boolean of a stored row, and
\* the string '1' the comparison in dict() looks for.
SendCertreqValues == NullBooleans \cup {"1"}

\* Address lists: no row, the empty placeholder, one address, two addresses,
\* the placeholder followed by an address.
CompileAddressLists(a, b) == { <<>>, <<"">>, <<a>>, <<a, b>>, <<"", a>> }

\* Children in definition order; the last list holds a child without a name.
CompileChildren ==
    { Children(n) : n \in 0..MaxChildren }
        \cup { <<[name |-> ChildNames[1], esp_proposals |-> <<"aes128gcm128">>],
                 [name |-> "", esp_proposals |-> <<"aes128gcm128">>]>> }

\* Endpoints whose fragments set keys that dict() has set before them, and
\* one key ("unique") that both sides set.
OverridingLocalAuth ==
    [name |-> "local", has_private_key |-> TRUE,
     fragment |-> << <<"local", <<"pubkey">>>>, <<"version", "1">>, <<"unique", "replace">> >>]

OverridingRemoteAuth ==
    [name |-> "remote", has_private_key |-> FALSE,
     fragment |-> << <<"remote", <<"eap-mschapv2">>>>, <<"send_cert", "never">>, <<"unique", "keep">> >>]

CompileConnections ==
    [ profile : {Profile},
      version : {"2"},
      pool : {None, "pool-1"},
      send_certreq : SendCertreqValues,
      connection_type : {"remote_access", "site_to_site"},
      initiate : {"None"},
      server_children : CompileChildren,
      server_local_addresses : CompileAddressLists("10.0.0.1", "10.0.1.1"),
      server_remote_addresses : CompileAddressLists("10.0.0.2", "10.0.1.2"),
      server_proposals : { <<"aes128-sha256-modp2048", "aes256-sha256-modp2048">> },
      server_local : { <<>>, <<KeyAuth("local")>>, <<OverridingLocalAuth>> },
      server_remote : { <<NoKeyAuth("remote")>>, <<OverridingRemoteAuth>> } ]

InitCompile ==
    /\ self \in CompileConnections
    /\ enabled = FALSE
    /\ certificates = <<>>
    /\ daemon_loaded = FALSE
    /\ log_messages = <<>>
    /\ pc = [t \in Callers |-> "idle"]
    /\ op = [t \in Callers |-> "none"]
    /\ idx = [t \in Callers |-> 0]
    /\ calls = [t \in Callers |-> <<>>]
    /\ result = [t \in Callers |-> NoResult]
    /\ prev = [t \in Callers |-> [op |-> "none", exc |-> "pending", log_messages |-> <<>>]]
    /\ overlap = FALSE
    /\ rows = ConnectionRowsOnly

\* A caller compiles the definition: self.dict()
call_dict(t) ==
    /\ pc[t] = "idle"
    /\ op[t] = "none"
    /\ op' = [op EXCEPT ![t] = "dict"]
    /\ result' = [result EXCEPT ![t] = dict(self)]
    /\ UNCHANGED <<rows, self, enabled, certificates, daemon_loaded, log_messages, pc, idx, calls, prev, overlap>>

NextCompile == call_dict(1)

SpecCompile == InitCompile /\ [][NextCompile]_vars

(***************************************************************************)
(* Deleting a connection: the pre_delete receiver, then the row itself.    *)
(***************************************************************************)
\* The ids of the children of connection instance.
ChildIds(db, instance) == { ch.id : ch \in { x \in db.Child : x.connection = instance } }

\* A receiver whose loop over the children leaves their remote_ts addresses.
delete_children_keeping_remote_ts(db, instance) ==
    LET ids == ChildIds(db, instance) IN
    [db EXCEPT !.Proposal = { p \in @ : p.child \notin ids },
               !.Address = { a \in @ : a.local_ts \notin ids },
               !.Child = { ch \in @ : ch.id \notin ids }]

\* for child in Child.objects.filter(connection=instance): delete its
\* proposals, its local_ts and remote_ts addresses, then the child
delete_children(db, instance) ==
    LET ids == ChildIds(db, instance) IN
    [db EXCEPT !.Proposal = { p \in @ : p.child \notin ids },
               !.Address = { a \in @ : a.local_ts \notin ids /\ a.remote_ts \notin ids },
               !.Child = { ch \in @ : ch.id \notin ids }]

\* Proposal / Address rows filtered by connection, local_addresses and
\* remote_addresses
delete_proposals_and_addresses(db, instance) ==
    [db EXCEPT !.Proposal = { p \in @ : p.connection # instance },
               !.Address = { a \in @ : a.local_addresses # instance /\ a.remote_addresses # instance }]

\* for local in Authentication.objects.filter(local=instance): local.delete()
\* and the same for remote
delete_authentications(db, instance) ==
    [db EXCEPT !.Authentication = { a \in @ : a.local # instance /\ a.remote # instance }]

delete_all_connected_models(db, instance) ==
    delete_authentications(
        delete_proposals_and_addresses(
            delete_children(db, instance), instance), instance)

\* The row of the connection itself goes once the receiver has run.
Model_delete(db, instance) == [db EXCEPT !.Connection = @ \ {instance}]

InitDelete ==
    /\ self = CHOOSE c \in Connections : TRUE
    /\ enabled = FALSE
    /\ certificates = <<>>
    /\ daemon_loaded = FALSE
    /\ log_messages = <<>>
    /\ pc = [t \in Callers |-> "idle"]
    /\ op = [t \in Callers |-> "none"]
    /\ idx = [t \in Callers |-> 0]
    /\ calls = [t \in Callers |-> <<>>]
    /\ result = [t \in Callers |-> NoResult]
    /\ prev = [t \in Callers |-> [op |-> "none", exc |-> "pending", log_messages |-> <<>>]]
    /\ overlap = FALSE
    /\ \E children \in SUBSET CandidateChildren, kinds \in SUBSET RowKinds, n \in 1..MaxRows :
           rows = Tables(children, kinds, n)

\* instance.delete() for a stored connection
delete(instance) ==
    /\ instance \in rows.Connection
    /\ rows' = Model_delete(delete_all_connected_models(rows, instance), instance)
    /\ UNCHANGED <<self, enabled, certificates, daemon_loaded, log_messages, pc, op, idx, calls, result, prev, overlap>>

NextDelete == \E instance \in ConnectionIds : delete(instance)

SpecDelete == InitDelete /\ [][NextDelete]_vars

(***************************************************************************)
(* One request thread and a daemon that fails no call.                     *)
(***************************************************************************)
\* Every daemon call of cs returned.
AllReturned(cs) == \A i \in DOMAIN cs : cs[i][3].exc = "none"

\* The steps of caller t in which the daemon answers.
StepFaithful(t) ==
    \/ \E o \in Ops : Call(t, o)
    \/ load_save(t)
    \/ load_unload_connection(t) /\ AllReturned(calls'[t])
    \/ load_load_connection(t) /\ AllReturned(calls'[t])
    \/ load_key_local(t) /\ AllReturned(calls'[t])
    \/ load_key_remote(t) /\ AllReturned(calls'[t])
    \/ load_certificate(t) /\ AllReturned(calls'[t])
    \/ start_initiate(t) /\ AllReturned(calls'[t])
    \/ unload_save(t)
    \/ unload_unload_connection(t) /\ AllReturned(calls'[t])
    \/ stop_terminate(t) /\ AllReturned(calls'[t])
    \/ state(t) /\ AllReturned(calls'[t])

NextFaithful == StepFaithful(1)

SpecFaithful == Init /\ [][NextFaithful]_vars

(***************************************************************************)
(* Properties.                                                             *)
(***************************************************************************)
\* Caller t has called method o and the call has ended.
Done(t, o) == pc[t] = "idle" /\ op[t] = o

CallNames(cs) == [i \in DOMAIN cs |-> cs[i][1]]

\* Some daemon call of cs raised.
Failed(cs) == \E i \in DOMAIN cs : cs[i][3].exc # "none"

\* C1: reading the state never raises and always returns one of the five
\* states, for every connection kind, initiate flag and daemon behaviour.
C1_StateReturnsOneOfFive ==
    \A t \in Callers :
        Done(t, "state") => /\ result[t].exc = "none"
                            /\ result[t].value \in States

\* C2: for an actively initiated connection (not remote access, initiate
\* truthy) the state is read from the daemon's tunnel state: Down,
\* Established and Connecting pass through, and every other reported state
\* and every query failure gives Down.
C2_ActiveStateFromTunnel ==
    \A t \in Callers :
        (Done(t, "state") /\ self.connection_type # "remote_access" /\ self.initiate = "True")
        => /\ Len(calls[t]) = 1
           /\ calls[t][1][1] = "get_connection_state"
           /\ calls[t][1][2] = self.profile
           /\ result[t].exc = "none"
           /\ result[t].value =
                IF /\ calls[t][1][3].exc = "none"
                   /\ calls[t][1][3].value \in {State_DOWN, State_ESTABLISHED, State_CONNECTING}
                THEN calls[t][1][3].value
                ELSE State_DOWN

\* The connection is passive: remote access, or site to site and not initiated.
Passive ==
    \/ self.connection_type = "remote_access"
    \/ self.connection_type = "site_to_site" /\ self.initiate \in {"None", "False"}

\* C3: for a passive connection the state query asks only whether the
\* profile is loaded and returns Loaded if it is, Unloaded if it is not and
\* Unloaded when the query fails; never Down, Connecting or Established.
C3_PassiveStateFromLoaded ==
    \A t \in Callers :
        (Done(t, "state") /\ Passive)
        => /\ Len(calls[t]) = 1
           /\ calls[t][1][1] = "is_connection_loaded"
           /\ calls[t][1][2] = self.profile
           /\ result[t].exc = "none"
           /\ result[t].value \in {State_LOADED, State_UNLOADED}
           /\ result[t].value =
                IF calls[t][1][3].exc # "none" THEN State_UNLOADED
                ELSE IF daemon_loaded THEN State_LOADED
                ELSE State_UNLOADED

\* A remote-access connection with initiate set whose profile the daemon
\* holds has been reported Loaded.
C3_Witness ==
    /\ Done(1, "state")
    /\ self.connection_type = "remote_access"
    /\ self.initiate = "True"
    /\ daemon_loaded
    /\ calls[1][1][3].exc = "none"
    /\ result[1].value = State_LOADED

\* C4: enabled changes only in the save step of load() (to true) or of
\* unload() (to false), also when these run inside start() and stop(); a
\* state query leaves enabled, the log and the daemon's configuration alone.
C4_EnabledOnlyByLoadUnload ==
    [][ /\ (enabled' # enabled) =>
              \E t \in Callers :
                  /\ pc'[t] # pc[t]
                  /\ \/ pc[t] = "load_save" /\ op[t] \in {"load", "start"} /\ enabled' = TRUE
                     \/ pc[t] = "unload_save" /\ op[t] \in {"unload", "stop"} /\ enabled' = FALSE
        /\ (\E t \in Callers : pc[t] = "state" /\ pc'[t] # pc[t]) =>
              UNCHANGED <<enabled, log_messages, daemon_loaded>>
      ]_vars

\* A state query has ended right after a load() that set enabled and loaded
\* the profile.
C4_Witness ==
    /\ Done(1, "state")
    /\ prev[1].op = "load"
    /\ enabled
    /\ daemon_loaded
\* The initiate calls among cs, in order.
Initiates(cs) == SelectSeq(cs, LAMBDA c : c[1] = "initiate")

\* C5: when no daemon call fails, start() leaves enabled true and the daemon
\* receives unload_connection(profile), then load_connection(document), then
\* one initiate(child, profile) per child in definition order if and only if
\* initiate is truthy; with initiate falsy there is no initiate call and no
\* log message is written.
C5_StartCallsInOrder ==
    \A t \in Callers :
        (Done(t, "start") /\ ~Failed(calls[t]))
        => /\ result[t].exc = "none"
           /\ enabled
           /\ Len(calls[t]) >= 2
           /\ calls[t][1][1] = "unload_connection" /\ calls[t][1][2] = self.profile
           /\ calls[t][2][1] = "load_connection" /\ calls[t][2][2] = dict(self).value
           /\ \A i \in 3..Len(calls[t]) :
                  calls[t][i][1] \in {"load_key", "load_certificate", "initiate"}
           /\ LET inits == Initiates(calls[t])
              IN  IF self.initiate = "True"
                  THEN /\ Len(inits) = Len(self.server_children)
                       /\ \A j \in DOMAIN inits :
                              inits[j][2] = <<self.server_children[j].name, self.profile>>
                  ELSE /\ Len(inits) = 0
                       /\ log_messages = prev[t].log_messages

\* C6: when the daemon rejects the document in load_connection, load() and
\* start() end there with the failure raised to the caller and enabled left
\* true: the rejected call is the last daemon call of the method.
C6_RejectedLoadPropagates ==
    \A t \in Callers :
        \A i \in DOMAIN calls[t] :
            (calls[t][i][1] = "load_connection" /\ calls[t][i][3].exc # "none")
            => /\ op[t] \in {"load", "start"}
               /\ i = Len(calls[t])
               /\ pc[t] = "idle"
               /\ result[t].exc # "none"
               /\ enabled

\* start() of a definition with keys, a certificate, children and initiate
\* set has ended with the document rejected.
C6_Witness ==
    /\ Done(1, "start")
    /\ self.initiate = "True"
    /\ Len(self.server_children) > 0
    /\ has_private_key(self.server_local[1])
    /\ Len(certificates) > 0
    /\ Len(calls[1]) = 2
    /\ calls[1][2][1] = "load_connection"
    /\ calls[1][2][3].exc # "none"

\* C7 as stated: two unload() calls in succession raise no error, enabled is
\* false and the daemon holds nothing under the profile after each.
C7_UnloadTwiceNeverRaises ==
    \A t \in Callers :
        (Done(t, "unload") /\ prev[t].op = "unload")
        => /\ prev[t].exc = "none"
           /\ result[t].exc = "none"
           /\ ~enabled
           /\ ~daemon_loaded

\* C7 as amended: every unload(), whatever was called before it, issues the
\* one call unload_connection(profile) and leaves enabled false; it raises
\* exactly when that call fails, and when the call does not fail the daemon
\* holds nothing under the profile afterwards.
C7_UnloadIdempotent ==
    \A t \in Callers :
        Done(t, "unload")
        => /\ ~enabled
           /\ Len(calls[t]) = 1
           /\ calls[t][1][1] = "unload_connection" /\ calls[t][1][2] = self.profile
           /\ (result[t].exc = "none") <=> (calls[t][1][3].exc = "none")
           /\ (calls[t][1][3].exc = "none") => ~daemon_loaded

\* A second unload() in succession has returned normally.
C7_Witness ==
    /\ Done(1, "unload")
    /\ prev[1].op = "unload"
    /\ prev[1].exc = "none"
    /\ result[1].exc = "none"

\* C8: an initiate call that fails ends start() with the failure raised and
\* no further daemon call; an initiate call that returns, whatever log lines
\* it returns, is followed by the initiate call for the next child, and
\* after the last child start() returns.
C8_InitiateFailureAborts ==
    \A t \in Callers :
        LET cs == calls[t]
            I == {i \in DOMAIN cs : cs[i][1] = "initiate"}
            children == self.server_children
        IN  \A i \in I :
                LET k == Cardinality({j \in I : j <= i})
                IN  /\ k <= Len(children)
                    /\ cs[i][2] = <<children[k].name, self.profile>>
                    /\ IF cs[i][3].exc # "none"
                       THEN i = Len(cs) /\ pc[t] = "idle" /\ result[t].exc # "none"
                       ELSE IF k < Len(children)
                       THEN \/ i < Len(cs) /\ cs[i + 1][1] = "initiate"
                            \/ i = Len(cs) /\ pc[t] = "start_initiate" /\ idx[t] = k + 1
                       ELSE i = Len(cs) /\ pc[t] = "idle" /\ result[t].exc = "none"

\* start() has ended on the failed initiate of the second child, after the
\* first child's initiate returned log lines.
C8_Witness ==
    /\ Done(1, "start")
    /\ Len(self.server_children) >= 2
    /\ Len(Initiates(calls[1])) = 2
    /\ Initiates(calls[1])[1][3].exc = "none"
    /\ Len(Initiates(calls[1])[1][3].value) > 0
    /\ Initiates(calls[1])[2][3].exc # "none"
    /\ result[1].exc # "none"

\* C9: stop() sets enabled to false, then calls unload_connection(profile)
\* and then terminate_connection(profile), once each and in that order; when
\* unload_connection fails the failure is raised, terminate_connection is
\* not called and enabled is already false.
C9_StopOrder ==
    \A t \in Callers :
        op[t] = "stop"
        => /\ Len(calls[t]) <= 2
           /\ Len(calls[t]) >= 1 =>
                 /\ ~enabled
                 /\ calls[t][1][1] = "unload_connection" /\ calls[t][1][2] = self.profile
           /\ Len(calls[t]) = 2 =>
                 /\ calls[t][1][3].exc = "none"
                 /\ calls[t][2][1] = "terminate_connection" /\ calls[t][2][2] = self.profile
           /\ pc[t] = "idle" =>
                 /\ ~enabled
                 /\ IF calls[t][1][3].exc # "none"
                    THEN Len(calls[t]) = 1 /\ result[t].exc # "none"
                    ELSE Len(calls[t]) = 2 /\ ((result[t].exc = "none") <=> (calls[t][2][3].exc = "none"))

\* stop() has ended on a failed unload_connection, right after a start()
\* that set enabled.
C9_Witness ==
    /\ Done(1, "stop")
    /\ prev[1].op = "start"
    /\ prev[1].exc = "none"
    /\ Len(calls[1]) = 1
    /\ calls[1][1][3].exc # "none"
    /\ result[1].exc # "none"
    /\ ~enabled
\* C10: lifecycle methods on one profile are not serialized.  Two calls that
\* both returned normally leave the flag and the daemon in agreement as long
\* as no call started while another was running; when the steps of a load()
\* and of an unload() or stop() interleave both can return normally with
\* enabled disagreeing with what the daemon holds (C10_Witness).
C10_DisagreementNeedsInterleaving ==
    ( /\ \A t \in Callers : pc[t] = "idle" /\ op[t] # "none" /\ result[t].exc = "none"
      /\ ~overlap )
    => (enabled <=> daemon_loaded)

\* load() by one thread and unload() or stop() by the other have both
\* returned normally and enabled disagrees with the daemon.
C10_Witness ==
    /\ Done(1, "load") /\ result[1].exc = "none"
    /\ pc[2] = "idle" /\ op[2] \in {"unload", "stop"} /\ result[2].exc = "none"
    /\ enabled # daemon_loaded
\* The value of key k in the ordered mapping d.
OrderedDict_get(d, k) == d[CHOOSE i \in DOMAIN d : d[i][1] = k][2]

\* The inner mapping of the document a finished dict() call returned.
IkeSa(t) == result[t].value[1][2]

\* The address list is empty or the single empty string.
NoAddress(addrs) == Len(addrs) = 0 \/ (Len(addrs) = 1 /\ addrs[1] = "")

\* C11: compiling never fails on the address lists; local_addrs is omitted
\* exactly when the local address list is empty or the single empty string,
\* and otherwise is the full ordered list; the same for remote_addrs.
C11_AddressKeys ==
    \A t \in Callers :
        Done(t, "dict")
        => /\ result[t].exc = "none"
           /\ OrderedDict_has(IkeSa(t), "local_addrs") <=> ~NoAddress(self.server_local_addresses)
           /\ OrderedDict_has(IkeSa(t), "local_addrs") =>
                 OrderedDict_get(IkeSa(t), "local_addrs") = self.server_local_addresses
           /\ OrderedDict_has(IkeSa(t), "remote_addrs") <=> ~NoAddress(self.server_remote_addresses)
           /\ OrderedDict_has(IkeSa(t), "remote_addrs") =>
                 OrderedDict_get(IkeSa(t), "remote_addrs") = self.server_remote_addresses
\* The definition has a child without a name.
HasUnnamedChild(c) ==
    \E i \in DOMAIN c.server_children : c.server_children[i].name = ""

\* C12: compiling a definition that has a child with no name signals
\* MalformedDefinition to the caller, and never returns a document (stated
\* for definitions that have an address on both sides, so that the address
\* lists play no part).
C12_UnnamedChildRejected ==
    \A t \in Callers :
        (/\ Done(t, "dict")
         /\ HasUnnamedChild(self)
         /\ Len(self.server_local_addresses) > 0
         /\ Len(self.server_remote_addresses) > 0)
        => result[t].exc = "MalformedDefinition"
\* No row of db refers to connection instance or to one of the children ids.
NoRowRefers(db, instance, ids) ==
    /\ \A ch \in db.Child : ch.connection # instance
    /\ \A p \in db.Proposal : p.connection # instance /\ p.child \notin ids
    /\ \A a \in db.Address :
           /\ a.local_addresses # instance /\ a.remote_addresses # instance
           /\ a.local_ts \notin ids /\ a.remote_ts \notin ids
    /\ \A a \in db.Authentication : a.local # instance /\ a.remote # instance

\* The rows of db that refer neither to instance nor to the children ids.
RowsOfOthers(db, instance, ids) ==
    [ Connection |-> db.Connection \ {instance},
      Child |-> { ch \in db.Child : ch.connection # instance },
      Proposal |-> { p \in db.Proposal : p.connection # instance /\ p.child \notin ids },
      Address |-> { a \in db.Address :
                      /\ a.local_addresses # instance /\ a.remote_addresses # instance
                      /\ a.local_ts \notin ids /\ a.remote_ts \notin ids },
      Authentication |-> { a \in db.Authentication : a.local # instance /\ a.remote # instance } ]

\* C13: once a connection is deleted, no Child, Proposal, Address or
\* Authentication row that referred to it or to one of its children remains,
\* and the rows of the other connections are exactly as they were.
C13_DeleteCascades ==
    [][\A instance \in ConnectionIds :
          (instance \in rows.Connection /\ instance \notin rows'.Connection)
          => /\ NoRowRefers(rows', instance, ChildIds(rows, instance))
             /\ rows' = RowsOfOthers(rows, instance, ChildIds(rows, instance))
      ]_vars

\* Connection 1 is deleted and connection 2 still has rows in every table.
C13_Witness ==
    /\ rows.Connection = {2}
    /\ rows.Child # {}
    /\ rows.Proposal # {}
    /\ rows.Address # {}
    /\ rows.Authentication # {}
\* The number of entries of the ordered mapping d under key k.
OrderedDict_count(d, k) == Cardinality({ i \in DOMAIN d : d[i][1] = k })

\* C14: every compiled document has the key send_certreq, once; its value is
\* "yes" exactly when the flag equals the string "1" and "no" for every other
\* value of the flag, True, False and unset included.
C14_SendCertreq ==
    \A t \in Callers :
        (Done(t, "dict") /\ result[t].exc = "none")
        => /\ OrderedDict_count(IkeSa(t), "send_certreq") = 1
           /\ OrderedDict_get(IkeSa(t), "send_certreq") \in {"yes", "no"}
           /\ OrderedDict_get(IkeSa(t), "send_certreq") = "yes" <=> self.send_certreq = "1"

\* A definition whose flag is True compiled to send_certreq "no".
C14_Witness ==
    /\ Done(1, "dict")
    /\ result[1].exc = "none"
    /\ self.send_certreq = "True"
    /\ OrderedDict_get(IkeSa(1), "send_certreq") = "no"
Elements(seq) == { seq[i] : i \in DOMAIN seq }

\* keys followed by the elements of more that are not among keys.
NewKeysAfter(keys, more) ==
    keys \o SelectSeq(more, LAMBDA k : k \notin Elements(keys))

RECURSIVE FragmentKeys(_)
\* The keys of the fragments of the endpoints auths, in order.
FragmentKeys(auths) ==
    IF Len(auths) = 0
    THEN <<>>
    ELSE OrderedDict_keys(Authentication_dict(auths[1])) \o FragmentKeys(Tail(auths))

\* The keys compile itself sets for the document doc of definition c.
OwnKeys(c, doc) ==
    (IF c.pool # None THEN <<"pools">> ELSE <<>>)
        \o (IF OrderedDict_has(doc, "local_addrs") THEN <<"local_addrs">> ELSE <<>>)
        \o (IF OrderedDict_has(doc, "remote_addrs") THEN <<"remote_addrs">> ELSE <<>>)
        \o <<"version", "proposals", "children", "send_certreq", "send_cert">>

\* C15: the document is a single entry keyed by the profile; the inner keys
\* come in the order pools, local_addrs, remote_addrs (each if present),
\* version, proposals, children, send_certreq, send_cert, then the keys the
\* local endpoints' fragments introduce, then those the remote endpoints'
\* fragments introduce; children are keyed by name in definition order.
C15_KeyOrder ==
    \A t \in Callers :
        (Done(t, "dict") /\ result[t].exc = "none")
        => /\ Len(result[t].value) = 1
           /\ result[t].value[1][1] = self.profile
           /\ OrderedDict_keys(IkeSa(t)) =
                 NewKeysAfter(NewKeysAfter(OwnKeys(self, IkeSa(t)), FragmentKeys(self.server_local)),
                              FragmentKeys(self.server_remote))
           /\ OrderedDict_keys(OrderedDict_get(IkeSa(t), "children")) =
                 [i \in DOMAIN self.server_children |-> self.server_children[i].name]

\* A document with a pool, both address lists, two children and fragments
\* on both sides that repeat keys set before them.
C15_Witness ==
    /\ Done(1, "dict")
    /\ result[1].exc = "none"
    /\ OrderedDict_keys(IkeSa(1)) =
           << "pools", "local_addrs", "remote_addrs", "version", "proposals", "children",
              "send_certreq", "send_cert", "local", "unique", "remote" >>
    /\ Len(self.server_children) = 2
RECURSIVE FragmentEntries(_)
\* The entries of the fragments of the endpoints auths, in order.
FragmentEntries(auths) ==
    IF Len(auths) = 0
    THEN <<>>
    ELSE Authentication_dict(auths[1]) \o FragmentEntries(Tail(auths))

\* The value of the last entry of entries under key k.
LastValue(entries, k) ==
    LET last == CHOOSE i \in DOMAIN entries :
                    /\ entries[i][1] = k
                    /\ \A j \in DOMAIN entries : entries[j][1] = k => j <= i
    IN  entries[last][2]

\* C16: every key an endpoint fragment sets has the fragment's value in the
\* document, also when compile set the key before (version, proposals,
\* send_cert); for a key both sides set, the value is the remote side's.
C16_FragmentsOverride ==
    \A t \in Callers :
        (Done(t, "dict") /\ result[t].exc = "none")
        => LET entries == FragmentEntries(self.server_local) \o FragmentEntries(self.server_remote)
           IN  \A i \in DOMAIN entries :
                   /\ OrderedDict_count(IkeSa(t), entries[i][1]) = 1
                   /\ OrderedDict_get(IkeSa(t), entries[i][1]) = LastValue(entries, entries[i][1])

\* The local fragment replaced version, the remote fragment replaced
\* send_cert, and the key both set has the remote value.
C16_Witness ==
    /\ Done(1, "dict")
    /\ result[1].exc = "none"
    /\ self.server_local = <<OverridingLocalAuth>>
    /\ self.server_remote = <<OverridingRemoteAuth>>
    /\ self.version = "2"
    /\ OrderedDict_get(IkeSa(1), "version") = "1"
    /\ OrderedDict_get(IkeSa(1), "send_cert") = "never"
    /\ OrderedDict_get(IkeSa(1), "unique") = "keep"
\* The endpoints among auths that have a private key, in order.
KeyAuths(auths) == SelectSeq(auths, LAMBDA a : has_private_key(a))

\* The daemon calls of a whole load() of definition c with certificate store certs.
LoadCallNames(c, certs) ==
    <<"unload_connection", "load_connection">>
        \o [i \in DOMAIN KeyAuths(c.server_local) |-> "load_key"]
        \o [i \in DOMAIN KeyAuths(c.server_remote) |-> "load_key"]
        \o [i \in DOMAIN certs |-> "load_certificate"]

\* C17: a load() in which no daemon call fails issues unload_connection
\* once, load_connection once, load_key once for every local and then every
\* remote endpoint that has a private key, load_certificate once for every
\* certificate of the store, in this order, and no initiate or terminate.
C17_LoadCalls ==
    \A t \in Callers :
        (Done(t, "load") /\ ~Failed(calls[t]))
        => /\ CallNames(calls[t]) = LoadCallNames(self, certificates)
           /\ LET keys == KeyAuths(self.server_local) \o KeyAuths(self.server_remote)
              IN  \A i \in DOMAIN keys : calls[t][2 + i][2] = get_key_dict(keys[i])
\* The messages of the log lines a daemon call answered with, in order; none
\* for a call that is not initiate or terminate_connection or that raised.
LinesOf(call) ==
    IF call[1] \in {"initiate", "terminate_connection"}
    THEN IF call[3].exc = "none"
         THEN [i \in DOMAIN call[3].value |-> call[3].value[i].message]
         ELSE <<>>
    ELSE <<>>

\* C18: the log is append-only.  A step in which initiate or
\* terminate_connection returns log lines appends exactly one message per
\* line, in the daemon's order, behind the messages already stored; every
\* other step of load(), start(), unload(), stop() and of a state query
\* leaves the stored messages as they are.
C18_LogAppendOnly ==
    [][\A t \in Callers :
          IF Len(calls'[t]) = Len(calls[t]) + 1
          THEN log_messages' = log_messages \o LinesOf(calls'[t][Len(calls'[t])])
          ELSE pc'[t] # pc[t] => log_messages' = log_messages
      ]_vars

\* stop() found messages stored, appended the lines of its terminate call
\* behind them and returned.
C18_Witness ==
    /\ Done(1, "stop")
    /\ result[1].exc = "none"
    /\ Len(prev[1].log_messages) > 0
    /\ Len(log_messages) > Len(prev[1].log_messages)
    /\ SubSeq(log_messages, 1, Len(prev[1].log_messages)) = prev[1].log_messages
Lifecycle == {"load", "start", "unload", "stop"}

\* C19: with one caller and a daemon that fails no call, whenever load(),
\* start(), unload() or stop() has returned, enabled is true exactly when
\* the daemon holds the profile; a state query of a passive connection made
\* right after such a return answers Loaded exactly when enabled is true.
C19_EnabledTracksDaemon ==
    \A t \in Callers :
        /\ (pc[t] = "idle" /\ op[t] \in Lifecycle /\ result[t].exc = "none")
           => (enabled <=> daemon_loaded)
        /\ (/\ Done(t, "state") /\ Passive
            /\ prev[t].op \in Lifecycle /\ prev[t].exc = "none")
           => (result[t].value = State_LOADED <=> enabled)

\* start() returned after an unload() that returned: the flag is set and the
\* daemon holds the profile.
C19_Witness ==
    /\ Done(1, "start")
    /\ result[1].exc = "none"
    /\ prev[1].op = "unload"
    /\ prev[1].exc = "none"
    /\ enabled
    /\ daemon_loaded
\* C20: load() unloads the profile before it compiles and loads the
\* definition: a load() that ends because compiling failed or because the
\* daemon rejected the document has issued unload_connection first, and
\* leaves the daemon without a configuration under the profile, loaded
\* before or not, while enabled is true.
C20_FailedLoadLeavesUnloaded ==
    \A t \in Callers :
        (Done(t, "load") /\ result[t].exc \in {"IndexError", "ViciLoadException"})
        => /\ Len(calls[t]) >= 1
           /\ calls[t][1][1] = "unload_connection"
           /\ calls[t][1][3].exc = "none"
           /\ IF result[t].exc = "IndexError"
              THEN Len(calls[t]) = 1
              ELSE Len(calls[t]) = 2 /\ calls[t][2][1] = "load_connection"
           /\ ~daemon_loaded
           /\ enabled

\* A load() had returned, so the profile was loaded; the next load() had its
\* document rejected and left the daemon without the profile.
C20_Witness ==
    /\ Done(1, "load")
    /\ prev[1].op = "load"
    /\ prev[1].exc = "none"
    /\ result[1].exc = "ViciLoadException"
    /\ ~daemon_loaded
    /\ enabled

====
